---- MODULE Spec2Model ----
(***************************************************************************)
(* Model of GithubFetcher: the recursive tree materialisation of           *)
(* src/client/mod.rs (tree, fetch_contents, expand_tree, assemble_tree)    *)
(* and the content window of src/server/mod.rs (apply_content_limits,      *)
(* slice_lines), the line_range deserialization of src/models.rs, and the  *)
(* get_file and list_repos tools.                                          *)
(*                                                                         *)
(* Strings are sequences: a path is a sequence of one-character strings,   *)
(* a file text is a sequence of UTF-8 bytes.                               *)
(***************************************************************************)
EXTENDS Integers, Sequences, FiniteSets, TLC

VARIABLES
    remote,             \* the provider's repository: canonical path -> response
    args,               \* TreeArgs of the invocation: [path, depth]
    pc,                 \* position of the tree invocation
    depth,              \* depth handed to GithubClient::tree (after the clamp)
    root_parent,        \* root key computed by GithubClient::tree
    queue,              \* expand_tree: VecDeque<(GithubContents, usize)>
    cur,                \* expand_tree: the Directory node being iterated
    children_by_parent, \* expand_tree: HashMap<String, Vec<TreeEntry>>
    fetches,            \* history: every fetch_contents call of the invocation
    consumed,           \* history: every key assemble_tree removed, in order
    outcome,            \* Result<Vec<TreeEntry>, ApiErrorBody> of the invocation
    prev,               \* history: the previous invocation (depth, outcome, fetches)
    wpc,                \* position of the content window call
    content,            \* apply_content_limits: content (UTF-8 bytes)
    line_range,         \* apply_content_limits: line_range
    max_chars,          \* apply_content_limits: max_chars
    output,             \* apply_content_limits: returned String (UTF-8 bytes)
    raw_range,          \* the JSON value given as line_range
    parsed,             \* Result of deserializing raw_range into a LineRange
    bases,              \* list_repos: the endpoints the for loop has left
    last_err,           \* list_repos: last_err
    requests            \* history: every request list_repos sent

treeVars == <<remote, args, pc, depth, root_parent, queue, cur,
              children_by_parent, fetches, consumed, outcome, prev>>
windowVars == <<wpc, content, line_range, max_chars, output, raw_range, parsed>>
repoVars == <<bases, last_err, requests>>
vars == <<remote, args, pc, depth, root_parent, queue, cur,
          children_by_parent, fetches, consumed, outcome, prev,
          wpc, content, line_range, max_chars, output, raw_range, parsed,
          bases, last_err, requests>>

(***************************************************************************)
(* Bounds                                                                  *)
(***************************************************************************)
MaxQueryLen == 4
MaxDepth == 3
MaxTextChars == 4
MaxLimit == 5
MaxLine == 3
MaxRangeLen == 5
MaxNumber == 2
MaxPage == 2

(***************************************************************************)
(* Option<T>                                                               *)
(***************************************************************************)
None == [some |-> FALSE]
Some(v) == [some |-> TRUE, val |-> v]

Min(a, b) == IF a < b THEN a ELSE b
Max(a, b) == IF a < b THEN b ELSE a

RECURSIVE Concat(_)
Concat(ss) == IF ss = <<>> THEN <<>> ELSE Head(ss) \o Concat(Tail(ss))

(***************************************************************************)
(* Path helpers of src/client/mod.rs                                       *)
(***************************************************************************)
PathChars == {"a", "b", "/"}

\* position of the last '/' of path, 0 when there is none
LastSlash(path) ==
    LET S == {i \in 1..Len(path) : path[i] = "/"}
    IN IF S = {} THEN 0 ELSE CHOOSE i \in S : \A j \in S : j <= i

\* path.rsplit_once('/').map(|(parent, _)| parent).unwrap_or_else(String::new)
parent_path(path) ==
    IF LastSlash(path) = 0 THEN <<>> ELSE SubSeq(path, 1, LastSlash(path) - 1)

\* path.rsplit('/').next().unwrap_or(path)
entry_name(path) == SubSeq(path, LastSlash(path) + 1, Len(path))

\* path.trim_matches('/')
normalize_root_path(path) ==
    LET K == {i \in 1..Len(path) : path[i] # "/"}
    IN IF K = {} THEN <<>>
       ELSE SubSeq(path, CHOOSE i \in K : \A j \in K : i <= j,
                         CHOOSE i \in K : \A j \in K : j <= i)

\* path.split('/'): the segments between separators, empty ones included
RECURSIVE SplitSlash(_, _)
SplitSlash(path, seg) ==
    IF path = <<>> THEN <<seg>>
    ELSE IF Head(path) = "/" THEN <<seg>> \o SplitSlash(Tail(path), <<>>)
    ELSE SplitSlash(Tail(path), Append(seg, Head(path)))

\* path.split('/').filter(|s| !s.is_empty())
PathSegments(path) == SelectSeq(SplitSlash(path, <<>>), LAMBDA s : s # <<>>)

\* build_url: the segments pushed onto the base URL, joined by '/'
RECURSIVE JoinSlash(_)
JoinSlash(segs) ==
    IF segs = <<>> THEN <<>>
    ELSE IF Len(segs) = 1 THEN Head(segs)
    ELSE Head(segs) \o <<"/">> \o JoinSlash(Tail(segs))

UrlPath(path) == JoinSlash(PathSegments(path))

(***************************************************************************)
(* Provider data: GithubContentType, GithubDirectoryEntry, GithubFile,     *)
(* GithubContents                                                          *)
(***************************************************************************)
GithubContentType == {"file", "dir", "symlink", "submodule"}

GithubDirectoryEntry(path, type, size, target, url) ==
    [path |-> path, type |-> type, size |-> size,
     target |-> target, submodule_git_url |-> url]

GithubFile(path, type, size, target, url) ==
    [path |-> path, type |-> type, size |-> size,
     target |-> target, submodule_git_url |-> url]

Directory(entries) == [kind |-> "dir", entries |-> entries]
File(file) == [kind |-> "file", file |-> file]
Failure(code, message) ==
    [kind |-> "err", error |-> [code |-> code, message |-> message]]

\* entries used by the repositories below
DirAt(path) == GithubDirectoryEntry(path, "dir", Some(0), None, None)
FileAt(path, size) == GithubDirectoryEntry(path, "file", Some(size), None, None)
LinkAt(path, size) == GithubDirectoryEntry(path, "symlink", Some(size), Some("t"), None)
ModuleAt(path) == GithubDirectoryEntry(path, "submodule", Some(0), None, Some("u"))

\* the single-object response of the contents API for a directory entry
AsFile(e) == File(GithubFile(e.path, e.type, e.size, e.target, e.submodule_git_url))

(***************************************************************************)
(* Repositories the provider may serve.  RepoTree and RepoChain answer as  *)
(* the contents API does (every entry of the listing of p lies directly    *)
(* under p).  RepoDup and RepoStray are answers a provider could send that *)
(* break that shape: a listing that repeats an entry, a listing whose      *)
(* entry lies under another directory, a dir entry that resolves to a file.*)
(***************************************************************************)
RepoTree ==
    (<<>> :> Directory(<<DirAt(<<"b">>), DirAt(<<"a">>)>>))
    @@ (<<"b">> :> Directory(<<FileAt(<<"b", "/", "b">>, 2), DirAt(<<"b", "/", "a">>)>>))
    @@ (<<"b", "/", "a">> :>
          Directory(<<LinkAt(<<"b", "/", "a", "/", "b">>, 1),
                      DirAt(<<"b", "/", "a", "/", "a">>)>>))
    @@ (<<"b", "/", "a", "/", "a">> :> Directory(<<>>))
    @@ (<<"b", "/", "a", "/", "b">> :> AsFile(LinkAt(<<"b", "/", "a", "/", "b">>, 1)))
    @@ (<<"b", "/", "b">> :> AsFile(FileAt(<<"b", "/", "b">>, 2)))
    @@ (<<"a">> :> Directory(<<ModuleAt(<<"a", "/", "a">>)>>))
    @@ (<<"a", "/", "a">> :> AsFile(ModuleAt(<<"a", "/", "a">>)))

RepoChain ==
    (<<>> :> Directory(<<DirAt(<<"a">>), FileAt(<<"b">>, 5)>>))
    @@ (<<"a">> :> Directory(<<DirAt(<<"a", "/", "b">>)>>))
    @@ (<<"a", "/", "b">> :>
          Directory(<<FileAt(<<"a", "/", "b", "/", "b">>, 7),
                      FileAt(<<"a", "/", "b", "/", "a">>, 3)>>))
    @@ (<<"a", "/", "b", "/", "a">> :> AsFile(FileAt(<<"a", "/", "b", "/", "a">>, 3)))
    @@ (<<"a", "/", "b", "/", "b">> :> AsFile(FileAt(<<"a", "/", "b", "/", "b">>, 7)))
    @@ (<<"b">> :> AsFile(FileAt(<<"b">>, 5)))

RepoDup ==
    (<<>> :> Directory(<<DirAt(<<"a">>), DirAt(<<"a">>)>>))
    @@ (<<"a">> :> Directory(<<FileAt(<<"a", "/", "b">>, 1)>>))
    @@ (<<"a", "/", "b">> :> AsFile(FileAt(<<"a", "/", "b">>, 1)))

RepoStray ==
    (<<>> :> Directory(<<DirAt(<<"a">>), DirAt(<<"b">>)>>))
    @@ (<<"a">> :> Directory(<<FileAt(<<"b", "/", "a">>, 1), DirAt(<<"a">>)>>))
    @@ (<<"b">> :> AsFile(FileAt(<<"b">>, 4)))

Repositories == {RepoTree, RepoChain, RepoDup, RepoStray}

\* every listing holds distinct entries lying directly under the listed path,
\* and every dir entry resolves to a listing
WellFormed(repo) ==
    \A p \in DOMAIN repo :
        repo[p].kind = "dir" =>
            LET es == repo[p].entries IN
            /\ \A i \in 1..Len(es) :
                  /\ parent_path(es[i].path) = p
                  /\ es[i].path = JoinSlash(PathSegments(es[i].path))
                  /\ es[i].path # <<>>
                  /\ es[i].type = "dir" =>
                        /\ es[i].path \in DOMAIN repo
                        /\ repo[es[i].path].kind = "dir"
            /\ \A i, j \in 1..Len(es) : es[i].path = es[j].path => i = j

(***************************************************************************)
(* fetch_contents: the request goes to the URL built from the non-empty    *)
(* segments of path; a non-success status or a transport failure is an     *)
(* ApiErrorBody, an array body is a Directory, anything else a File.       *)
(***************************************************************************)
NotFound == Failure("404", "Not Found")
TransportErrors == {Failure("0", "connection reset"), Failure("502", "Bad Gateway")}

ProviderResponse(repo, path) ==
    IF UrlPath(path) \in DOMAIN repo THEN repo[UrlPath(path)] ELSE NotFound

fetch_contents(repo, path) == {ProviderResponse(repo, path)} \cup TransportErrors

(***************************************************************************)
(* TreeEntry and the conversions into it                                   *)
(***************************************************************************)
\* GithubFile::into_tree_entry / GithubDirectoryEntry::into_tree_entry
\* the reported size is kept for every kind
into_tree_entry_sized(e, children) ==
    [type |-> e.type,
     name |-> entry_name(e.path),
     path |-> e.path,
     size |-> e.size,
     target |-> e.target,
     submodule_git_url |-> e.submodule_git_url,
     children |-> children]

into_tree_entry(e, children) ==
    [type |-> e.type,
     name |-> entry_name(e.path),
     path |-> e.path,
     size |-> IF e.type \in {"dir", "submodule"} THEN None ELSE e.size,
     target |-> e.target,
     submodule_git_url |-> e.submodule_git_url,
     children |-> children]

(***************************************************************************)
(* The children index: HashMap<String, Vec<TreeEntry>>                     *)
(***************************************************************************)
EmptyIndex == [k \in {} |-> <<>>]

\* the entry is put in front of the ones already there
IndexPushFront(index, parent, entry) ==
    IF parent \in DOMAIN index
    THEN [index EXCEPT ![parent] = <<entry>> \o @]
    ELSE index @@ (parent :> <<entry>>)

\* the entry is not recorded
IndexPushSkipped(index, parent, entry) == index

\* children_by_parent.entry(parent).or_default().push(entry)
IndexPush(index, parent, entry) ==
    IF parent \in DOMAIN index
    THEN [index EXCEPT ![parent] = Append(@, entry)]
    ELSE index @@ (parent :> <<entry>>)

\* the key is looked up but stays in the map
IndexRemoveKept(index, parent) == index

\* children_by_parent.remove(parent): the map without the key
IndexRemove(index, parent) ==
    [k \in DOMAIN index \ {parent} |-> index[k]]

\* children_by_parent.remove(parent).unwrap_or_default(): the value taken
IndexTake(index, parent) ==
    IF parent \in DOMAIN index THEN index[parent] ELSE <<>>

\* the budget is compared with the wrong threshold
\* the kind of the entry is not looked at
ShouldFetchAnyKind(is_dir, remaining_depth) == remaining_depth > 1

ShouldFetchAbove3(is_dir, remaining_depth) == is_dir /\ remaining_depth > 3

\* matches!(entry.type, Dir) && remaining_depth > 1
ShouldFetch(is_dir, remaining_depth) == is_dir /\ remaining_depth > 1

\* the budget a nested listing is enqueued with
\* the budget is handed on as it is
NestedDepthSame(remaining_depth) == remaining_depth

NestedDepth(remaining_depth) == remaining_depth - 1

\* the error is rewrapped as a generic one
PropagateGeneric(error) == [code |-> "0", message |-> error.message]

\* the `?` on a failed fetch: the ApiErrorBody is returned as it is
Propagate(error) == error

(***************************************************************************)
(* assemble_tree.  The result is the entries, the index that is left and   *)
(* the keys removed so far, each with the number of entries it held and    *)
(* whether the key was gone from the index right after the removal.        *)
(***************************************************************************)
RECURSIVE assemble_tree(_, _, _)
RECURSIVE AssembleEntries(_, _, _, _)

assemble_tree(index, parent, used) ==
    AssembleEntries(IndexRemove(index, parent),
                    IndexTake(index, parent), <<>>,
                    Append(used, [key |-> parent,
                                  held |-> Len(IndexTake(index, parent)),
                                  gone |-> parent \notin DOMAIN IndexRemove(index, parent)]))

\* for entry in entries.iter_mut(): todo are the entries not yet visited
AssembleEntries(index, todo, done, used) ==
    IF todo = <<>> THEN [entries |-> done, index |-> index, used |-> used]
    ELSE IF Head(todo).type = "dir"
    THEN LET sub == assemble_tree(index, Head(todo).path, used)
         IN AssembleEntries(sub.index, Tail(todo),
                            Append(done, [Head(todo) EXCEPT !.children = sub.entries]),
                            sub.used)
    ELSE AssembleEntries(index, Tail(todo), Append(done, Head(todo)), used)

(***************************************************************************)
(* The tree tool: GithubServer::tree -> GithubClient::tree -> expand_tree  *)
(***************************************************************************)
QueryPaths == UNION {[1..n -> PathChars] : n \in 0..MaxQueryLen}

Ok(entries) == [kind |-> "ok", entries |-> entries]
Err(error) == [kind |-> "err", error |-> error]
Pending == [kind |-> "none"]

NoNode == [entries |-> <<>>, remaining_depth |-> 0]

\* one record of the fetch history
Fetched(path, response, nested, recorded, remaining) ==
    [path |-> path, response |-> response, nested |-> nested,
     recorded |-> recorded, remaining |-> remaining]

\* the index holds an entry of that path under the path's parent
Recorded(index, path) ==
    /\ parent_path(path) \in DOMAIN index
    /\ \E i \in 1..Len(index[parent_path(path)]) :
          index[parent_path(path)][i].path = path

\* list_repos is not running
ReposIdle ==
    /\ bases = <<>>
    /\ last_err = None
    /\ requests = <<>>

\* no line_range value is being deserialized
ParseIdle ==
    /\ raw_range = [json |-> "null"]
    /\ parsed = [kind |-> "none"]

WindowIdle ==
    /\ wpc = "off"
    /\ content = <<>>
    /\ line_range = None
    /\ max_chars = None
    /\ output = <<>>
    /\ ParseIdle

Init ==
    /\ remote \in Repositories
    /\ args \in [path : QueryPaths, depth : 0..MaxDepth]
    /\ pc = "idle"
    /\ depth = 0
    /\ root_parent = <<>>
    /\ queue = <<>>
    /\ cur = NoNode
    /\ children_by_parent = EmptyIndex
    /\ fetches = <<>>
    /\ consumed = <<>>
    /\ outcome = Pending
    /\ prev = None
    /\ WindowIdle
    /\ ReposIdle

\* the requested depth is used as it is
ClampDepthNone(requested) == requested

\* let depth = args.depth.max(1)
ClampDepth(requested) == Max(requested, 1)

\* the root key is the trimmed query path whatever the contents are
RootParentTrimmed(contents, path) == normalize_root_path(path)

\* let root_parent = match &contents { Directory(_) => normalize_root_path(path),
\*                                     File(file) => parent_path(&file.path) }
RootParent(contents, path) ==
    IF contents.kind = "dir" THEN normalize_root_path(path)
    ELSE parent_path(contents.file.path)

\* GithubServer::tree clamps the depth; GithubClient::tree fetches the
\* requested path, computes the root key and seeds the queue of expand_tree
TreeCall ==
    /\ pc = "idle"
    /\ depth' = ClampDepth(args.depth)
    /\ \E resp \in fetch_contents(remote, args.path) :
          /\ fetches' = <<Fetched(args.path, resp, FALSE, FALSE, depth')>>
          /\ IF resp.kind = "err"
             THEN /\ outcome' = Err(Propagate(resp.error))
                  /\ pc' = "done"
                  /\ UNCHANGED <<root_parent, queue>>
             ELSE /\ root_parent' = RootParent(resp, args.path)
                  /\ queue' = <<[node |-> resp, remaining_depth |-> depth']>>
                  /\ pc' = "expand"
                  /\ UNCHANGED outcome
    /\ UNCHANGED <<remote, args, cur, children_by_parent, consumed, prev>>
    /\ UNCHANGED <<windowVars, repoVars>>

\* while let Some((node, remaining_depth)) = queue.pop_front(): a File is
\* indexed at once, the entries of a Directory are iterated by ExpandEntry
PopNode ==
    /\ pc = "expand"
    /\ cur.entries = <<>>
    /\ queue # <<>>
    /\ queue' = Tail(queue)
    /\ IF Head(queue).node.kind = "file"
       THEN /\ children_by_parent' =
                  IndexPush(children_by_parent,
                            parent_path(Head(queue).node.file.path),
                            into_tree_entry(Head(queue).node.file, <<>>))
            /\ UNCHANGED cur
       ELSE /\ cur' = [entries |-> Head(queue).node.entries,
                       remaining_depth |-> Head(queue).remaining_depth]
            /\ UNCHANGED children_by_parent
    /\ UNCHANGED <<remote, args, pc, depth, root_parent, fetches, consumed,
                   outcome, prev>>
    /\ UNCHANGED <<windowVars, repoVars>>

\* one iteration of `for entry in entries`: index the entry, then fetch it
\* when it is a directory and the budget allows; a failed fetch returns
\* from expand_tree, dropping its queue and its index
ExpandEntry ==
    /\ pc = "expand"
    /\ cur.entries # <<>>
    /\ LET entry == Head(cur.entries)
           index == IndexPush(children_by_parent, parent_path(entry.path),
                              into_tree_entry(entry, <<>>))
       IN IF ShouldFetch(entry.type = "dir", cur.remaining_depth)
          THEN \E resp \in fetch_contents(remote, entry.path) :
                  /\ fetches' = Append(fetches,
                                       Fetched(entry.path, resp, TRUE,
                                               Recorded(index, entry.path),
                                               cur.remaining_depth))
                  /\ IF resp.kind = "err"
                     THEN /\ outcome' = Err(Propagate(resp.error))
                          /\ pc' = "done"
                          /\ queue' = <<>>
                          /\ cur' = NoNode
                          /\ children_by_parent' = EmptyIndex
                     ELSE /\ queue' = Append(queue,
                                 [node |-> resp,
                                  remaining_depth |-> NestedDepth(cur.remaining_depth)])
                          /\ cur' = [cur EXCEPT !.entries = Tail(@)]
                          /\ children_by_parent' = index
                          /\ UNCHANGED <<outcome, pc>>
          ELSE /\ cur' = [cur EXCEPT !.entries = Tail(@)]
               /\ children_by_parent' = index
               /\ UNCHANGED <<fetches, queue, outcome, pc>>
    /\ UNCHANGED <<remote, args, depth, root_parent, consumed, prev>>
    /\ UNCHANGED <<windowVars, repoVars>>

\* the queue is empty: Ok(assemble_tree(&mut children_by_parent, root_parent))
Finish ==
    /\ pc = "expand"
    /\ cur.entries = <<>>
    /\ queue = <<>>
    /\ LET r == assemble_tree(children_by_parent, root_parent, <<>>)
       IN /\ outcome' = Ok(r.entries)
          /\ children_by_parent' = r.index
          /\ consumed' = r.used
    /\ pc' = "done"
    /\ UNCHANGED <<remote, args, depth, root_parent, queue, cur, fetches, prev>>
    /\ UNCHANGED <<windowVars, repoVars>>

\* the caller invokes the tool again on the same path, one level deeper;
\* nothing of the finished invocation is kept but its recorded result
Again ==
    /\ pc = "done"
    /\ outcome.kind = "ok"
    /\ ~prev.some
    /\ prev' = Some([depth |-> depth, outcome |-> outcome])
    /\ args' = [args EXCEPT !.depth = depth + 1]
    /\ pc' = "idle"
    /\ depth' = 0
    /\ root_parent' = <<>>
    /\ queue' = <<>>
    /\ cur' = NoNode
    /\ children_by_parent' = EmptyIndex
    /\ fetches' = <<>>
    /\ consumed' = <<>>
    /\ outcome' = Pending
    /\ UNCHANGED remote
    /\ UNCHANGED <<windowVars, repoVars>>

\* the caller that asked for depth 0 asks again for depth 1 on the same
\* path; the finished invocation is kept as its requested depth, its
\* fetches and its result
AgainClamped ==
    /\ pc = "done"
    /\ outcome.kind = "ok"
    /\ ~prev.some
    /\ args.depth = 0
    /\ prev' = Some([depth |-> args.depth, outcome |-> outcome, fetches |-> fetches])
    /\ args' = [args EXCEPT !.depth = 1]
    /\ pc' = "idle"
    /\ depth' = 0
    /\ root_parent' = <<>>
    /\ queue' = <<>>
    /\ cur' = NoNode
    /\ children_by_parent' = EmptyIndex
    /\ fetches' = <<>>
    /\ consumed' = <<>>
    /\ outcome' = Pending
    /\ UNCHANGED remote
    /\ UNCHANGED <<windowVars, repoVars>>

Next == TreeCall \/ PopNode \/ ExpandEntry \/ Finish \/ Again \/ AgainClamped

Spec == Init /\ [][Next]_vars

\* every step of an invocation is run by the async runtime once it can be
\* taken: the loop of expand_tree has no wait but the awaited fetch, which
\* returns contents or an error; invoking the tool again is up to the caller
SpecLive ==
    /\ Spec
    /\ WF_vars(TreeCall) /\ WF_vars(PopNode) /\ WF_vars(ExpandEntry) /\ WF_vars(Finish)

(***************************************************************************)
(* The content window of src/server/mod.rs.  A String is its UTF-8 bytes:  *)
(* 'h' is 104, '\n' is 10 and 'e-acute' is the two bytes 195 169.          *)
(***************************************************************************)
Newline == 10
TextChars == {<<104>>, <<Newline>>, <<195, 169>>}

Texts == {Concat(cs) : cs \in UNION {[1..n -> TextChars] : n \in 0..MaxTextChars}}

\* the forms of LineRange that the match of apply_content_limits has arms for
End(end) == [kind |-> "End", end |-> end]
Range(start, end) == [kind |-> "Range", start |-> start, end |-> end]
LineRanges ==
    {End(n) : n \in 0..MaxLine}
    \cup {Range(a, b) : a \in 0..MaxLine, b \in 0..MaxLine}

\* number of bytes of the UTF-8 sequence that starts with byte b
Utf8Width(b) == IF b < 128 THEN 1 ELSE IF b < 224 THEN 2 ELSE IF b < 240 THEN 3 ELSE 4

\* str::chars(): the text decoded into its characters
RECURSIVE Chars(_)
Chars(bytes) ==
    IF bytes = <<>> THEN <<>>
    ELSE <<SubSeq(bytes, 1, Utf8Width(Head(bytes)))>>
         \o Chars(SubSeq(bytes, Utf8Width(Head(bytes)) + 1, Len(bytes)))

\* Iterator::take(n)
Take(seq, n) == SubSeq(seq, 1, Min(n, Len(seq)))

\* the text is cut after limit bytes
TakeBytes(text, limit) == Take(text, limit)

\* content.chars().take(limit).collect()
TakeChars(text, limit) == Concat(Take(Chars(text), limit))

\* str::split('\n'): the terminators are dropped
RECURSIVE SplitExclusive(_, _)
SplitExclusive(bytes, seg) ==
    IF bytes = <<>> THEN (IF seg = <<>> THEN <<>> ELSE <<seg>>)
    ELSE IF Head(bytes) = Newline
    THEN <<seg>> \o SplitExclusive(Tail(bytes), <<>>)
    ELSE SplitExclusive(Tail(bytes), Append(seg, Head(bytes)))

\* str::split_inclusive('\n'): every segment keeps its terminator
RECURSIVE SplitInclusive(_, _)
SplitInclusive(bytes, seg) ==
    IF bytes = <<>> THEN (IF seg = <<>> THEN <<>> ELSE <<seg>>)
    ELSE IF Head(bytes) = Newline
    THEN <<Append(seg, Newline)>> \o SplitInclusive(Tail(bytes), <<>>)
    ELSE SplitInclusive(Tail(bytes), Append(seg, Head(bytes)))

\* the loop of slice_lines over (idx, line), idx counted from 0
RECURSIVE SliceLoop(_, _, _, _, _)
SliceLoop(lines, idx, start, end, limited) ==
    IF lines = <<>> THEN limited
    ELSE IF idx + 1 < start
    THEN SliceLoop(Tail(lines), idx + 1, start, end, limited)
    ELSE IF idx + 1 > end THEN limited
    ELSE SliceLoop(Tail(lines), idx + 1, start, end, limited \o Head(lines))

\* the early return for empty ranges is missing
slice_lines_unguarded(text, start, end) ==
    SliceLoop(SplitInclusive(text, <<>>), 0, start, end, <<>>)

slice_lines(text, start, end) ==
    IF start = 0 \/ end = 0 \/ end < start THEN <<>>
    ELSE SliceLoop(SplitInclusive(text, <<>>), 0, start, end, <<>>)

\* the line range is applied before the character limit
apply_content_limits_lines_first(text, range, limit) ==
    LET sliced == IF ~range.some THEN text
                  ELSE IF range.val.kind = "End"
                  THEN slice_lines(text, 1, range.val.end)
                  ELSE slice_lines(text, range.val.start, range.val.end)
    IN IF limit.some THEN TakeChars(sliced, limit.val) ELSE sliced

apply_content_limits(text, range, limit) ==
    LET limited == IF limit.some THEN TakeChars(text, limit.val) ELSE text
    IN IF ~range.some THEN limited
       ELSE IF range.val.kind = "End"
       THEN slice_lines(limited, 1, range.val.end)
       ELSE slice_lines(limited, range.val.start, range.val.end)

TreeIdle ==
    /\ remote = RepoTree
    /\ args = [path |-> <<>>, depth |-> 1]
    /\ pc = "off"
    /\ depth = 0
    /\ root_parent = <<>>
    /\ queue = <<>>
    /\ cur = NoNode
    /\ children_by_parent = EmptyIndex
    /\ fetches = <<>>
    /\ consumed = <<>>
    /\ outcome = Pending
    /\ prev = None

InitWindow ==
    /\ TreeIdle
    /\ ReposIdle
    /\ wpc = "call"
    /\ content \in Texts
    /\ line_range \in {None} \cup {Some(r) : r \in LineRanges}
    /\ max_chars \in {None} \cup {Some(n) : n \in 0..MaxLimit}
    /\ output = <<>>
    /\ ParseIdle

\* GithubServer::get_file hands the decoded text to apply_content_limits
ApplyLimits ==
    /\ wpc = "call"
    /\ output' = apply_content_limits(content, line_range, max_chars)
    /\ wpc' = "done"
    /\ UNCHANGED <<content, line_range, max_chars, raw_range, parsed>>
    /\ UNCHANGED <<treeVars, repoVars>>

NextWindow == ApplyLimits

SpecWindow == InitWindow /\ [][NextWindow]_vars

(***************************************************************************)
(* LineRange::Start.  src/models.rs defines the form and its bounds, but   *)
(* the match of apply_content_limits has no arm for it and slice_lines     *)
(* takes a fixed end: the source does not determine which window of the    *)
(* text a Start range gives, so every window is a possible outcome.        *)
(***************************************************************************)
Start(start) == [kind |-> "Start", start |-> start]

\* LineRange::bounds
bounds(range) ==
    IF range.kind = "End" THEN [start |-> 1, end |-> Some(range.end)]
    ELSE IF range.kind = "Range" THEN [start |-> range.start, end |-> Some(range.end)]
    ELSE [start |-> range.start, end |-> None]

UnmatchedOutcomes(text) ==
    {text} \cup {slice_lines(text, a, b) : a \in 0..(MaxLine + 1), b \in 0..(MaxLine + 1)}

InitStart ==
    /\ TreeIdle
    /\ ReposIdle
    /\ wpc = "call"
    /\ content \in Texts
    /\ line_range \in {Some(Start(n)) : n \in 0..MaxLine}
    /\ max_chars \in {None} \cup {Some(n) : n \in 0..MaxLimit}
    /\ output = <<>>
    /\ ParseIdle

\* apply_content_limits on a range its match has no arm for
ApplyLimitsUnmatched ==
    /\ wpc = "call"
    /\ line_range.some
    /\ line_range.val.kind \notin {"End", "Range"}
    /\ output' \in UnmatchedOutcomes(IF max_chars.some
                                     THEN TakeChars(content, max_chars.val)
                                     ELSE content)
    /\ wpc' = "done"
    /\ UNCHANGED <<content, line_range, max_chars, raw_range, parsed>>
    /\ UNCHANGED <<treeVars, repoVars>>

NextStart == ApplyLimitsUnmatched

SpecStart == InitStart /\ [][NextStart]_vars

(***************************************************************************)
(* Deserializing line_range: impl Deserialize for LineRange and            *)
(* parse_line_range of src/models.rs.  A string is a sequence of           *)
(* one-character strings.                                                  *)
(***************************************************************************)
RangeChars == {"0", "1", ".", ":", "x", " "}
Digits == <<"0", "1", "2", "3", "4", "5", "6", "7", "8", "9">>

RangeTexts == UNION {[1..n -> RangeChars] : n \in 0..MaxRangeLen}

RawRanges ==
    {[json |-> "string", text |-> t] : t \in RangeTexts}
    \cup {[json |-> "number", val |-> n] : n \in (0 - 1)..MaxNumber}
    \cup {[json |-> "array"]}

IsDigit(c) == \E d \in 1..10 : Digits[d] = c
DigitVal(c) == (CHOOSE d \in 1..10 : Digits[d] = c) - 1

\* str::trim
trim(value) ==
    LET K == {i \in 1..Len(value) : value[i] # " "}
    IN IF K = {} THEN <<>>
       ELSE SubSeq(value, CHOOSE i \in K : \A j \in K : i <= j,
                          CHOOSE i \in K : \A j \in K : j <= i)

\* the digits of usize::from_str, most significant first
RECURSIVE ParseDigits(_, _)
ParseDigits(digits, acc) ==
    IF digits = <<>> THEN Some(acc)
    ELSE IF ~IsDigit(Head(digits)) THEN None
    ELSE ParseDigits(Tail(digits), acc * 10 + DigitVal(Head(digits)))

\* str::parse::<usize>().ok(): an optional '+', then one digit or more
ParseUsize(text) ==
    LET digits == IF text # <<>> /\ Head(text) = "+" THEN Tail(text) ELSE text
    IN IF digits = <<>> THEN None ELSE ParseDigits(digits, 0)

\* str::contains(pat)
Contains(value, pat) ==
    \E i \in 1..(Len(value) - Len(pat) + 1) : SubSeq(value, i, i + Len(pat) - 1) = pat

\* ".." is looked for before "..."
SeparatorShortFirst(value) ==
    IF Contains(value, <<".", ".">>) THEN Some(<<".", ".">>)
    ELSE IF Contains(value, <<".", ".", ".">>) THEN Some(<<".", ".", ".">>)
    ELSE IF Contains(value, <<":">>) THEN Some(<<":">>)
    ELSE None

\* the separator chosen by parse_line_range
Separator(value) ==
    IF Contains(value, <<".", ".", ".">>) THEN Some(<<".", ".", ".">>)
    ELSE IF Contains(value, <<".", ".">>) THEN Some(<<".", ".">>)
    ELSE IF Contains(value, <<":">>) THEN Some(<<":">>)
    ELSE None

\* value.splitn(2, separator): the parts around the first occurrence
SplitOnce(value, sep) ==
    LET P == {i \in 1..(Len(value) - Len(sep) + 1) :
                 SubSeq(value, i, i + Len(sep) - 1) = sep}
        at == CHOOSE i \in P : \A j \in P : i <= j
    IN [left |-> SubSeq(value, 1, at - 1),
        right |-> SubSeq(value, at + Len(sep), Len(value))]

\* the side is empty or does not parse
SideOf(part) == IF trim(part) = <<>> THEN None ELSE ParseUsize(trim(part))

parse_line_range(text) ==
    LET value == trim(text) IN
    IF value = <<>> THEN None
    ELSE IF ParseUsize(value).some THEN Some(End(ParseUsize(value).val))
    ELSE IF ~Separator(value).some THEN None
    ELSE LET parts == SplitOnce(value, Separator(value).val)
             start == SideOf(parts.left)
             end == SideOf(parts.right)
         IN IF start.some /\ end.some THEN Some(Range(start.val, end.val))
            ELSE IF start.some THEN Some(Start(start.val))
            ELSE IF end.some THEN Some(End(end.val))
            ELSE None

\* LineRangeVisitor: visit_u64 / visit_i64 for a number, visit_str for a
\* string, an error for anything else
deserialize_line_range(raw) ==
    IF raw.json = "number"
    THEN (IF raw.val < 0 THEN None ELSE Some(End(raw.val)))
    ELSE IF raw.json = "string" THEN parse_line_range(raw.text)
    ELSE None

InitParse ==
    /\ TreeIdle
    /\ ReposIdle
    /\ wpc = "parse"
    /\ content = <<>>
    /\ line_range = None
    /\ max_chars = None
    /\ output = <<>>
    /\ raw_range \in RawRanges
    /\ parsed = [kind |-> "none"]

\* GetFileArgs is deserialized: a LineRange, or a validation failure
DeserializeRange ==
    /\ wpc = "parse"
    /\ parsed' = IF deserialize_line_range(raw_range).some
                 THEN [kind |-> "ok", range |-> deserialize_line_range(raw_range).val]
                 ELSE [kind |-> "invalid"]
    /\ wpc' = "parsed"
    /\ UNCHANGED <<content, line_range, max_chars, output, raw_range>>
    /\ UNCHANGED <<treeVars, repoVars>>

NextParse == DeserializeRange

SpecParse == InitParse /\ [][NextParse]_vars

(***************************************************************************)
(* The get_file tool: GithubServer::get_file -> GithubClient::get_file.    *)
(* A GithubFile of the contents API also carries its payload and the       *)
(* encoding tag; the payload is a sequence of one-character strings.       *)
(***************************************************************************)
Blob(path, type, size, payload, encoding) ==
    File([path |-> path, type |-> type, size |-> size, target |-> None,
          submodule_git_url |-> None, content |-> payload, encoding |-> encoding])

\* the alphabet of base64::engine::general_purpose::STANDARD
B64Alphabet ==
    <<"A", "B", "C", "D", "E", "F", "G", "H", "I", "J", "K", "L", "M",
      "N", "O", "P", "Q", "R", "S", "T", "U", "V", "W", "X", "Y", "Z",
      "a", "b", "c", "d", "e", "f", "g", "h", "i", "j", "k", "l", "m",
      "n", "o", "p", "q", "r", "s", "t", "u", "v", "w", "x", "y", "z",
      "0", "1", "2", "3", "4", "5", "6", "7", "8", "9", "+", "/">>

IsB64(c) == \E i \in 1..64 : B64Alphabet[i] = c
B64Value(c) == (CHOOSE i \in 1..64 : B64Alphabet[i] = c) - 1

\* the three bytes of a group of four symbols
GroupBytes(g) ==
    LET n == B64Value(g[1]) * 262144 + B64Value(g[2]) * 4096
             + B64Value(g[3]) * 64 + B64Value(g[4])
    IN <<n \div 65536, (n \div 256) % 256, n % 256>>

\* the last group: full, or padded with "=" or "==" and no stray bits
LastGroup(g) ==
    IF IsB64(g[1]) /\ IsB64(g[2]) /\ IsB64(g[3]) /\ IsB64(g[4])
    THEN Some(GroupBytes(g))
    ELSE IF IsB64(g[1]) /\ IsB64(g[2]) /\ IsB64(g[3]) /\ g[4] = "="
    THEN (IF B64Value(g[3]) % 4 = 0
          THEN Some(SubSeq(GroupBytes(<<g[1], g[2], g[3], "A">>), 1, 2))
          ELSE None)
    ELSE IF IsB64(g[1]) /\ IsB64(g[2]) /\ g[3] = "=" /\ g[4] = "="
    THEN (IF B64Value(g[2]) % 16 = 0
          THEN Some(SubSeq(GroupBytes(<<g[1], g[2], "A", "A">>), 1, 1))
          ELSE None)
    ELSE None

\* STANDARD.decode: groups of four symbols, canonical padding required
RECURSIVE B64Decode(_)
B64Decode(input) ==
    IF input = <<>> THEN Some(<<>>)
    ELSE IF Len(input) < 4 THEN None
    ELSE IF Len(input) = 4 THEN LastGroup(input)
    ELSE IF \E k \in 1..4 : ~IsB64(input[k]) THEN None
    ELSE LET rest == B64Decode(SubSeq(input, 5, Len(input)))
         IN IF rest.some THEN Some(GroupBytes(SubSeq(input, 1, 4)) \o rest.val)
            ELSE None

IsContinuation(bytes, i) == i <= Len(bytes) /\ bytes[i] >= 128 /\ bytes[i] <= 191

\* the validation of String::from_utf8
RECURSIVE ValidUtf8(_)
ValidUtf8(bytes) ==
    IF bytes = <<>> THEN TRUE
    ELSE LET b == Head(bytes) IN
         IF b < 128 THEN ValidUtf8(Tail(bytes))
         ELSE IF b >= 194 /\ b <= 223
         THEN IsContinuation(bytes, 2) /\ ValidUtf8(SubSeq(bytes, 3, Len(bytes)))
         ELSE IF b >= 224 /\ b <= 239
         THEN /\ IsContinuation(bytes, 2) /\ IsContinuation(bytes, 3)
              /\ (b = 224 => bytes[2] >= 160)
              /\ (b = 237 => bytes[2] <= 159)
              /\ ValidUtf8(SubSeq(bytes, 4, Len(bytes)))
         ELSE IF b >= 240 /\ b <= 244
         THEN /\ IsContinuation(bytes, 2) /\ IsContinuation(bytes, 3)
              /\ IsContinuation(bytes, 4)
              /\ (b = 240 => bytes[2] >= 144)
              /\ (b = 244 => bytes[2] <= 143)
              /\ ValidUtf8(SubSeq(bytes, 5, Len(bytes)))
         ELSE FALSE

\* every byte sequence is accepted
from_utf8_lossy(bytes) == Some(bytes)

from_utf8(bytes) == IF ValidUtf8(bytes) THEN Some(bytes) ELSE None

DirectoryError == [code |-> "400", message |-> "Requested path is a directory, not a file."]
DecodeError(message) == [code |-> "0", message |-> message]

Text(text) == [kind |-> "ok", text |-> text]

\* a directory is answered as an empty file
get_file_directory_as_empty(contents) ==
    IF contents.kind = "dir" THEN Text(<<>>) ELSE Err(DecodeError("File content missing"))

\* GithubClient::get_file on the fetched contents: the decoded text, or
\* the error of the first step that fails
get_file(contents) ==
    IF contents.kind = "dir" THEN Err(DirectoryError)
    ELSE LET file == contents.file
             encoding == IF file.encoding.some THEN file.encoding.val ELSE "base64"
         IN IF encoding # "base64" THEN Err(DecodeError("Unsupported encoding: " \o encoding))
            ELSE IF ~file.content.some THEN Err(DecodeError("File content missing"))
            ELSE LET decoded == B64Decode(SelectSeq(file.content.val,
                                                     LAMBDA c : c # "\n"))
                 IN IF ~decoded.some THEN Err(DecodeError("base64 decode error"))
                    ELSE IF ~from_utf8(decoded.val).some
                    THEN Err(DecodeError("invalid utf-8 sequence"))
                    ELSE Text(from_utf8(decoded.val).val)

\* payloads: "h\nh\nh\n" over two lines, "h" + e-acute, a symbol outside
\* the alphabet, stray bits before the padding, the byte 255
PayloadLines == <<"a", "A", "p", "o", "\n", "C", "m", "g", "K">>
PayloadAccent == <<"a", "M", "O", "p">>
PayloadBadSymbol == <<"a", "!", "O", "p">>
PayloadStrayBits == <<"a", "B", "=", "=">>
PayloadNotUtf8 == <<"/", "w", "=", "=">>

BlobRepo(aa, ab, ba, bb) ==
    (<<>> :> Directory(<<DirAt(<<"a">>), DirAt(<<"b">>)>>))
    @@ (<<"a">> :> Directory(<<FileAt(<<"a", "/", "a">>, 6), FileAt(<<"a", "/", "b">>, 3)>>))
    @@ (<<"b">> :> Directory(<<FileAt(<<"b", "/", "a">>, 1), FileAt(<<"b", "/", "b">>, 1)>>))
    @@ (<<"a", "/", "a">> :> aa)
    @@ (<<"a", "/", "b">> :> ab)
    @@ (<<"b", "/", "a">> :> ba)
    @@ (<<"b", "/", "b">> :> bb)

FileRepositories ==
    {BlobRepo(Blob(<<"a", "/", "a">>, "file", Some(6), Some(PayloadLines), Some("base64")),
              Blob(<<"a", "/", "b">>, "file", Some(3), Some(PayloadAccent), None),
              Blob(<<"b", "/", "a">>, "file", Some(1), Some(PayloadNotUtf8), Some("base64")),
              Blob(<<"b", "/", "b">>, "file", Some(1), Some(PayloadBadSymbol), Some("base64"))),
     BlobRepo(Blob(<<"a", "/", "a">>, "file", Some(6), Some(PayloadLines), Some("none")),
              Blob(<<"a", "/", "b">>, "submodule", Some(0), None, None),
              Blob(<<"b", "/", "a">>, "file", Some(1), Some(PayloadStrayBits), None),
              Blob(<<"b", "/", "b">>, "file", Some(0), Some(<<>>), Some("base64")))}

InitFile ==
    /\ remote \in FileRepositories
    /\ args \in [path : QueryPaths, depth : {1}]
    /\ pc = "idle"
    /\ depth = 0
    /\ root_parent = <<>>
    /\ queue = <<>>
    /\ cur = NoNode
    /\ children_by_parent = EmptyIndex
    /\ fetches = <<>>
    /\ consumed = <<>>
    /\ outcome = Pending
    /\ prev = None
    /\ wpc = "off"
    /\ content = <<>>
    /\ line_range \in {None} \cup {Some(r) : r \in LineRanges}
    /\ max_chars \in {None} \cup {Some(n) : n \in 0..MaxLimit}
    /\ output = <<>>
    /\ ParseIdle
    /\ ReposIdle

\* GithubServer::get_file: the client fetches and decodes the file; only a
\* decoded text reaches apply_content_limits, an error is returned as it is
GetFile ==
    /\ pc = "idle"
    /\ \E resp \in fetch_contents(remote, args.path) :
          /\ fetches' = <<Fetched(args.path, resp, FALSE, FALSE, 0)>>
          /\ IF resp.kind = "err"
             THEN /\ outcome' = Err(Propagate(resp.error))
                  /\ UNCHANGED <<wpc, content, output>>
             ELSE IF get_file(resp).kind = "err"
             THEN /\ outcome' = get_file(resp)
                  /\ UNCHANGED <<wpc, content, output>>
             ELSE /\ content' = get_file(resp).text
                  /\ output' = apply_content_limits(content', line_range, max_chars)
                  /\ wpc' = "done"
                  /\ outcome' = Text(output')
    /\ pc' = "done"
    /\ UNCHANGED <<remote, args, depth, root_parent, queue, cur,
                   children_by_parent, consumed, prev>>
    /\ UNCHANGED <<line_range, max_chars, raw_range, parsed>>
    /\ UNCHANGED repoVars

NextFile == GetFile

SpecFile == InitFile /\ [][NextFile]_vars

(***************************************************************************)
(* The list_repos tool: GithubServer::list_repos ->                        *)
(* GithubClient::list_repos.  The provider answers each request with a     *)
(* status and a body, or the request fails in transport.                   *)
(***************************************************************************)
GithubRepoSummary(name, private, description) ==
    [name |-> name, full_name |-> "o/" \o name, private |-> private,
     html_url |-> "https://github.com/o/" \o name, description |-> description]

\* impl From<GithubRepoSummary> for RepoSummary
RepoSummary(repo) ==
    [name |-> repo.name, full_name |-> repo.full_name, private |-> repo.private,
     description |-> repo.description, html_url |-> repo.html_url]

Statuses == {200, 301, 403, 404}

\* StatusCode::as_u16().to_string()
StatusText(status) ==
    CASE status = 200 -> "200" [] status = 301 -> "301"
      [] status = 403 -> "403" [] status = 404 -> "404"

\* StatusCode::canonical_reason()
canonical_reason(status) ==
    CASE status = 200 -> "OK" [] status = 301 -> "Moved Permanently"
      [] status = 403 -> "Forbidden" [] status = 404 -> "Not Found"

is_success(status) == status >= 200 /\ status <= 299

\* the bodies a response may carry: a JSON array of repositories, a JSON
\* object with a message, nothing, or a text that is not JSON
Bodies ==
    {[json |-> "repos", repos |-> <<>>],
     [json |-> "repos",
      repos |-> <<GithubRepoSummary("r", FALSE, None),
                  GithubRepoSummary("s", TRUE, Some("d"))>>],
     [json |-> "message", message |-> "Not Found"],
     [json |-> "message", message |-> "no such organization"],
     [json |-> "empty"],
     [json |-> "text", text |-> "<html>"]}

RepoResponses ==
    {[kind |-> "sent", status |-> st, body |-> b] : st \in Statuses, b \in Bodies}
    \cup {[kind |-> "failed"]}

\* ApiErrorBody::from_reqwest for a request that got no response
from_reqwest == [code |-> "0", message |-> "error sending request"]

\* ApiErrorBody::from_response: the message of a JSON object body, else the
\* canonical reason for an empty body, else the body as it is
from_response(status, body) ==
    [code |-> StatusText(status),
     message |-> CASE body.json = "message" -> body.message
                   [] body.json = "empty" -> canonical_reason(status)
                   [] body.json = "text" -> body.text
                   [] body.json = "repos" ->
                        IF body.repos = <<>> THEN "[]" ELSE "[{..}]"]

\* every failing status moves on to the next endpoint
IsFailure(status) == ~is_success(status)

\* status == StatusCode::NOT_FOUND
IsNotFound(status) == status = 404

PageNumbers == {None} \cup {Some(n) : n \in 1..MaxPage}

InitRepos ==
    /\ remote = RepoTree
    /\ args \in [owner : {"o"}, page : PageNumbers, per_page : PageNumbers]
    /\ pc = "idle"
    /\ depth = 0
    /\ root_parent = <<>>
    /\ queue = <<>>
    /\ cur = NoNode
    /\ children_by_parent = EmptyIndex
    /\ fetches = <<>>
    /\ consumed = <<>>
    /\ outcome = Pending
    /\ prev = None
    /\ WindowIdle
    /\ bases = <<"users", "orgs">>
    /\ last_err = None
    /\ requests = <<>>

\* one iteration of `for base in ["users", "orgs"]`: the request is sent and
\* its response decides between returning and the next endpoint; after the
\* last endpoint the loop is left and last_err is returned
ListReposRequest ==
    /\ pc = "idle"
    /\ bases # <<>>
    /\ \E resp \in RepoResponses :
          /\ requests' = Append(requests,
                                [base |-> Head(bases), owner |-> args.owner,
                                 page |-> args.page, per_page |-> args.per_page,
                                 response |-> resp])
          /\ IF resp.kind = "failed"
             THEN /\ outcome' = Err(from_reqwest)
                  /\ pc' = "done"
                  /\ UNCHANGED <<bases, last_err>>
             ELSE IF IsNotFound(resp.status)
             THEN /\ last_err' = Some(from_response(resp.status, resp.body))
                  /\ bases' = Tail(bases)
                  /\ IF bases' = <<>>
                     THEN /\ outcome' = Err(last_err'.val)
                          /\ pc' = "done"
                     ELSE UNCHANGED <<outcome, pc>>
             ELSE IF ~is_success(resp.status)
             THEN /\ outcome' = Err(from_response(resp.status, resp.body))
                  /\ pc' = "done"
                  /\ UNCHANGED <<bases, last_err>>
             ELSE IF resp.body.json # "repos"
             THEN /\ outcome' = Err([code |-> StatusText(resp.status),
                                     message |-> "error decoding response body"])
                  /\ pc' = "done"
                  /\ UNCHANGED <<bases, last_err>>
             ELSE /\ outcome' = Ok([i \in 1..Len(resp.body.repos) |->
                                        RepoSummary(resp.body.repos[i])])
                  /\ pc' = "done"
                  /\ UNCHANGED <<bases, last_err>>
    /\ UNCHANGED <<remote, args, depth, root_parent, queue, cur,
                   children_by_parent, fetches, consumed, prev>>
    /\ UNCHANGED windowVars

NextRepos == ListReposRequest

SpecRepos == InitRepos /\ [][NextRepos]_vars

(***************************************************************************)
(* Vocabulary of the properties                                            *)
(***************************************************************************)
Paths(entries) == [i \in 1..Len(entries) |-> entries[i].path]

\* every node of a nested result, parents before children
RECURSIVE Flatten(_)
Flatten(entries) ==
    IF entries = <<>> THEN <<>>
    ELSE <<Head(entries)>> \o Flatten(Head(entries).children) \o Flatten(Tail(entries))

\* number of levels of entries below the directory at canonical path p
\* (0 for a file, a missing path or an empty directory)
RECURSIVE ListingDepth(_, _, _)
ListingDepth(repo, p, fuel) ==
    IF fuel = 0 \/ p \notin DOMAIN repo THEN 0
    ELSE IF repo[p].kind # "dir" \/ repo[p].entries = <<>> THEN 0
    ELSE LET es == repo[p].entries
             D == {ListingDepth(repo, UrlPath(es[i].path), fuel - 1) :
                      i \in {k \in 1..Len(es) : es[k].type = "dir"}}
         IN 1 + (IF D = {} THEN 0 ELSE CHOOSE m \in D : \A n \in D : n <= m)

RemoteDepth == ListingDepth(remote, UrlPath(args.path), MaxDepth + 3)

Succeeded == pc = "done" /\ outcome.kind = "ok"
RootIsDirectory == fetches # <<>> /\ fetches[1].response.kind = "dir"
RootListing == fetches[1].response.entries

RECURSIVE SumHeld(_)
SumHeld(used) == IF used = <<>> THEN 0 ELSE Head(used).held + SumHeld(Tail(used))

(***************************************************************************)
(* C1: for every tree invocation with depth 1 on a path that resolves to a *)
(* directory, the result lists exactly the direct children of the          *)
(* requested path (the entries of its listing, in order), each with an     *)
(* empty children list, and the only fetch is the one for the requested    *)
(* path.  The provider answers as the contents API does.                   *)
(***************************************************************************)
C1_DepthOneListsDirectChildren ==
    (WellFormed(remote) /\ pc # "idle" /\ depth = 1 /\ RootIsDirectory) =>
        /\ Len(fetches) = 1
        /\ Succeeded =>
              outcome.entries =
                  [i \in 1..Len(RootListing) |-> into_tree_entry(RootListing[i], <<>>)]

(***************************************************************************)
(* C2: depth saturation.  When the tree below the requested path has fewer *)
(* than d levels and neither invocation meets a failing fetch, the result  *)
(* of depth d + 1 equals the result of depth d.                            *)
(***************************************************************************)
C2_DepthSaturation ==
    (Succeeded /\ prev.some /\ RemoteDepth < prev.val.depth) =>
        /\ depth = prev.val.depth + 1
        /\ outcome = prev.val.outcome

C2_Witness ==
    /\ Succeeded /\ prev.some
    /\ RemoteDepth = 2 /\ prev.val.depth = 3
    /\ Len(fetches) >= 3
    /\ outcome = prev.val.outcome

(***************************************************************************)
(* C3: a failing fetch ends the invocation with exactly that fetch's error *)
(* (same code and message); no tree is returned, and the failing fetch is  *)
(* the last fetch of the invocation (nothing is fetched after it, the path *)
(* is not retried).                                                        *)
(***************************************************************************)
C3_FailureAborts ==
    /\ \A i \in 1..Len(fetches) :
          fetches[i].response.kind = "err" =>
              /\ i = Len(fetches)
              /\ pc = "done"
              /\ outcome = Err(fetches[i].response.error)
              /\ queue = <<>> /\ cur = NoNode
    /\ outcome.kind = "err" =>
          /\ fetches # <<>>
          /\ fetches[Len(fetches)].response.kind = "err"

C3_Witness ==
    /\ outcome.kind = "err"
    /\ Len(fetches) >= 3
    /\ fetches[Len(fetches)].nested
    /\ fetches[Len(fetches)].response.error.code = "502"

C6_TopLevelIsRootListing ==
    (WellFormed(remote) /\ Succeeded /\ RootIsDirectory) =>
        /\ root_parent = normalize_root_path(args.path)
        /\ Paths(outcome.entries) = Paths(RootListing)

(***************************************************************************)
(* C7: every key the assembler uses is gone from the index right after the *)
(* use, a key used again holds nothing, and every indexed sequence is      *)
(* attached to at most one node of the result: the nodes of the result are *)
(* as many as the entries the removed keys held, also when two entries of  *)
(* a listing carry the same path.                                          *)
(***************************************************************************)
C7_KeysConsumedOnce ==
    Succeeded =>
        /\ \A i \in 1..Len(consumed) : consumed[i].gone
        /\ \A i, j \in 1..Len(consumed) :
              (i < j /\ consumed[i].key = consumed[j].key) => consumed[j].held = 0
        /\ \A i \in 1..Len(consumed) : consumed[i].key \notin DOMAIN children_by_parent
        /\ Len(Flatten(outcome.entries)) = SumHeld(consumed)
        /\ \A m, n \in 1..Len(Flatten(outcome.entries)) :
              LET a == Flatten(outcome.entries)[m]
                  b == Flatten(outcome.entries)[n]
              IN (m # n /\ a.path = b.path /\ a.children # <<>>) => b.children = <<>>

C7_Witness ==
    /\ Succeeded
    /\ Len(consumed) = 3
    /\ consumed[2].key = consumed[3].key
    /\ consumed[2].held = 2
    /\ Len(outcome.entries) = 2
    /\ Len(outcome.entries[1].children) = 2
    /\ outcome.entries[2].children = <<>>

(***************************************************************************)
(* C8: after the assembly of a successful expansion the children index is  *)
(* empty: every key built during the traversal has been consumed.  The     *)
(* provider answers as the contents API does.                              *)
(***************************************************************************)
C8_IndexDrained ==
    (WellFormed(remote) /\ Succeeded) => children_by_parent = EmptyIndex

(***************************************************************************)
(* Vocabulary of the window properties, stated on byte positions           *)
(***************************************************************************)
\* byte b starts a character (it is not a continuation byte 10xxxxxx)
StartsChar(b) == b < 128 \/ b >= 192

CharCount(text) == Cardinality({i \in 1..Len(text) : StartsChar(text[i])})

\* a character ends at position k of text
Boundary(text, k) == k = Len(text) \/ StartsChar(text[k + 1])

\* the first c characters: the longest prefix that ends on a character
\* boundary and holds at most c characters
FirstChars(text, c) ==
    LET K == {k \in 0..Len(text) :
                 Boundary(text, k) /\ CharCount(SubSeq(text, 1, k)) <= c}
    IN SubSeq(text, 1, CHOOSE k \in K : \A m \in K : m <= k)

\* 1-based number of the line that byte i of text lies on
LineOf(text, i) == 1 + Cardinality({j \in 1..(i - 1) : text[j] = Newline})

\* the bytes of the lines numbered start..end; lines are numbered from 1
\* and a range that starts at 0 selects nothing
LinesOf(text, start, end) ==
    LET S == {i \in 1..Len(text) :
                 /\ start >= 1
                 /\ start <= LineOf(text, i) /\ LineOf(text, i) <= end}
    IN IF S = {} THEN <<>>
       ELSE SubSeq(text, CHOOSE i \in S : \A j \in S : i <= j,
                         CHOOSE i \in S : \A j \in S : j <= i)

RangeStart(r) == IF r.kind = "End" THEN 1 ELSE r.start

(***************************************************************************)
(* C9: with a character limit c and a line range r, the result is the line *)
(* slice r of the first c characters of the text.                          *)
(***************************************************************************)
C9_CharsThenLines ==
    (wpc = "done" /\ max_chars.some /\ line_range.some) =>
        output = LinesOf(FirstChars(content, max_chars.val),
                         RangeStart(line_range.val), line_range.val.end)

\* a call where the other order gives another text
C9_Witness ==
    /\ wpc = "done" /\ max_chars.some /\ line_range.some
    /\ output # <<>>
    /\ output # FirstChars(LinesOf(content, RangeStart(line_range.val),
                                   line_range.val.end), max_chars.val)
    /\ \E i \in 1..Len(content) : ~StartsChar(content[i])

(***************************************************************************)
(* C10: with a character limit c and no line range, the result is a prefix *)
(* of the text that holds min(c, number of characters) characters and ends *)
(* on a character boundary: no multi-byte character is split.              *)
(***************************************************************************)
C10_CharLimitKeepsWholeChars ==
    (wpc = "done" /\ max_chars.some /\ ~line_range.some) =>
        /\ Len(output) <= Len(content)
        /\ output = SubSeq(content, 1, Len(output))
        /\ CharCount(output) = Min(max_chars.val, CharCount(content))
        /\ Boundary(content, Len(output))

C10_Witness ==
    /\ wpc = "done" /\ ~line_range.some
    /\ max_chars = Some(2)
    /\ content = <<104, 195, 169, 104>>
    /\ output = <<104, 195, 169>>

(***************************************************************************)
(* Vocabulary of the line properties                                       *)
(***************************************************************************)
\* the text the line range is applied to
Limited == IF max_chars.some THEN FirstChars(content, max_chars.val) ELSE content

\* number of lines of text: one per terminator, and one more for a final
\* line that has no terminator
LineCount(text) ==
    Cardinality({i \in 1..Len(text) : text[i] = Newline})
    + (IF text # <<>> /\ text[Len(text)] # Newline THEN 1 ELSE 0)

\* position lo starts a line of text, position hi ends one
LineStartsAt(text, lo) == lo = 1 \/ text[lo - 1] = Newline
LineEndsAt(text, hi) == hi = Len(text) \/ text[hi] = Newline

(***************************************************************************)
(* C11: line slicing with bounds 1 <= start <= end returns the lines       *)
(* numbered start..end, in order: a contiguous piece of the text that      *)
(* begins where line start begins and ends where line min(end, last line)  *)
(* ends, terminators kept and none added; nothing when the text has fewer  *)
(* than start lines.                                                       *)
(***************************************************************************)
C11_SliceKeepsWholeLines ==
    (wpc = "done" /\ line_range.some
       /\ 1 <= RangeStart(line_range.val)
       /\ RangeStart(line_range.val) <= line_range.val.end) =>
        LET text == Limited
            start == RangeStart(line_range.val)
            end == line_range.val.end
        IN IF start > LineCount(text) THEN output = <<>>
           ELSE \E lo \in 1..Len(text) : \E hi \in lo..Len(text) :
                   /\ output = SubSeq(text, lo, hi)
                   /\ LineStartsAt(text, lo) /\ LineOf(text, lo) = start
                   /\ LineEndsAt(text, hi)
                   /\ LineOf(text, hi) = Min(end, LineCount(text))

\* lines 2..3 of a text of three lines whose last line has no terminator
C11_Witness ==
    /\ wpc = "done" /\ ~max_chars.some
    /\ content = <<Newline, 195, 169, Newline, 104>>
    /\ line_range = Some(Range(2, 3))
    /\ output = <<195, 169, Newline, 104>>

(***************************************************************************)
(* C12: the window returns the empty string when the range has start 0 or  *)
(* end 0, has end < start, or starts after the last line of the (character *)
(* limited) text; with no limit and no range it returns the text unchanged.*)
(***************************************************************************)
C12_EmptyRanges ==
    wpc = "done" =>
        /\ (line_range.some
              /\ (\/ RangeStart(line_range.val) = 0
                  \/ line_range.val.end = 0
                  \/ line_range.val.end < RangeStart(line_range.val)
                  \/ RangeStart(line_range.val) > LineCount(Limited)))
           => output = <<>>
        /\ (~line_range.some /\ ~max_chars.some) => output = content

\* a range that starts at 0 on a text that has a first line
C12_Witness ==
    /\ wpc = "done"
    /\ line_range = Some(Range(0, 2))
    /\ max_chars = Some(3)
    /\ content = <<104, Newline, 104, 104>>
    /\ output = <<>>

(***************************************************************************)
(* C13: a range Start(n) with n >= 1 has the bounds (n, no upper bound)    *)
(* and the window keeps every line from line n to the end of the           *)
(* (character limited) text.                                               *)
(***************************************************************************)
C13_StartKeepsTail ==
    (wpc = "done" /\ line_range.some /\ line_range.val.kind = "Start"
       /\ line_range.val.start >= 1) =>
        /\ bounds(line_range.val) = [start |-> line_range.val.start, end |-> None]
        /\ output = LinesOf(Limited, line_range.val.start, Len(Limited) + 1)

(***************************************************************************)
(* Vocabulary of the parsing properties                                    *)
(***************************************************************************)
Numeral(t) == t # <<>> /\ \A i \in 1..Len(t) : IsDigit(t[i])

RECURSIVE NumeralValue(_)
NumeralValue(t) ==
    IF t = <<>> THEN 0
    ELSE 10 * NumeralValue(SubSeq(t, 1, Len(t) - 1)) + DigitVal(t[Len(t)])

\* first position at which pat occurs in t, 0 when it does not occur
FirstAt(t, pat) ==
    LET P == {i \in 1..Len(t) : i + Len(pat) - 1 <= Len(t)
                                /\ \A k \in 1..Len(pat) : t[i + k - 1] = pat[k]}
    IN IF P = {} THEN 0 ELSE CHOOSE i \in P : \A j \in P : i <= j

\* the separator of t: "..." before ".." before ":"
SepOf(t) ==
    IF FirstAt(t, <<".", ".", ".">>) > 0 THEN <<".", ".", ".">>
    ELSE IF FirstAt(t, <<".", ".">>) > 0 THEN <<".", ".">>
    ELSE IF FirstAt(t, <<":">>) > 0 THEN <<":">>
    ELSE <<>>

LeftOf(t) == SubSeq(t, 1, FirstAt(t, SepOf(t)) - 1)
RightOf(t) == SubSeq(t, FirstAt(t, SepOf(t)) + Len(SepOf(t)), Len(t))

ParsedAs(range) == parsed = [kind |-> "ok", range |-> range]

(***************************************************************************)
(* C14: a bare non-negative integer (JSON number or numeric string) gives  *)
(* End(n); a text split at the first occurrence of its separator ("..."    *)
(* before ".." before ":") gives End(right) for an empty left and a        *)
(* numeric right, Start(left) for a numeric left and an empty right, and   *)
(* Range(left, right) for two numeric sides.                               *)
(***************************************************************************)
C14_WellFormedParses ==
    wpc = "parsed" =>
        /\ (raw_range.json = "number" /\ raw_range.val >= 0) =>
              ParsedAs(End(raw_range.val))
        /\ raw_range.json = "string" =>
              LET t == raw_range.text IN
              /\ Numeral(t) => ParsedAs(End(NumeralValue(t)))
              /\ (SepOf(t) # <<>> /\ LeftOf(t) = <<>> /\ Numeral(RightOf(t))) =>
                    ParsedAs(End(NumeralValue(RightOf(t))))
              /\ (SepOf(t) # <<>> /\ Numeral(LeftOf(t)) /\ RightOf(t) = <<>>) =>
                    ParsedAs(Start(NumeralValue(LeftOf(t))))
              /\ (SepOf(t) # <<>> /\ Numeral(LeftOf(t)) /\ Numeral(RightOf(t))) =>
                    ParsedAs(Range(NumeralValue(LeftOf(t)), NumeralValue(RightOf(t))))

\* "1...0" is split at "...", not at ".."
C14_Witness ==
    /\ wpc = "parsed"
    /\ raw_range = [json |-> "string", text |-> <<"1", ".", ".", ".", "0">>]
    /\ ParsedAs(Range(1, 0))

(***************************************************************************)
(* C15: parsing fails when both sides of the separator are empty, when a   *)
(* side is non-empty and not a non-negative integer, or when there is no   *)
(* separator and the whole string is not numeric; a non-numeric left side  *)
(* with a numeric right side is a failure, not an End range.  Sides are    *)
(* taken without their surrounding blanks.                                 *)
(***************************************************************************)
C15_MalformedFails ==
    (wpc = "parsed" /\ raw_range.json = "string") =>
        LET t == trim(raw_range.text)
            left == trim(LeftOf(t))
            right == trim(RightOf(t))
        IN (/\ ~Numeral(t)
            /\ \/ SepOf(t) = <<>>
               \/ left = <<>> /\ right = <<>>
               \/ left # <<>> /\ ~Numeral(left)
               \/ right # <<>> /\ ~Numeral(right))
           => parsed.kind = "invalid"

(***************************************************************************)
(* C16: when the path given to get_file resolves to a directory listing    *)
(* the invocation fails with code "400" and the message that the path is a *)
(* directory; no content is returned and the content window is not         *)
(* applied, whatever line_range and max_chars are.                         *)
(***************************************************************************)
C16_DirectoryIsRejected ==
    (pc = "done" /\ fetches[1].response.kind = "dir") =>
        /\ outcome = Err([code |-> "400",
                          message |-> "Requested path is a directory, not a file."])
        /\ wpc = "off"
        /\ content = <<>> /\ output = <<>>

C16_Witness ==
    /\ pc = "done"
    /\ fetches[1].response.kind = "dir"
    /\ fetches[1].response.entries # <<>>
    /\ line_range = Some(Range(1, 2)) /\ max_chars = Some(3)
    /\ outcome.kind = "err" /\ outcome.error.code = "400"

(***************************************************************************)
(* C19: an unsupported encoding tag, a missing payload, a payload that is  *)
(* not base64 and decoded bytes that are not UTF-8 each end get_file with  *)
(* an error of code "0" and the content window is not applied; the window  *)
(* is applied only to a text that was decoded, and its result is returned. *)
(***************************************************************************)
C19_DecodeBeforeWindow ==
    (pc = "done" /\ fetches[1].response.kind = "file") =>
        LET file == fetches[1].response.file
            stripped == SelectSeq(file.content.val, LAMBDA c : c # "\n")
            failed == \/ file.encoding.some /\ file.encoding.val # "base64"
                      \/ ~file.content.some
                      \/ ~B64Decode(stripped).some
                      \/ ~ValidUtf8(B64Decode(stripped).val)
        IN /\ failed => /\ outcome.kind = "err" /\ outcome.error.code = "0"
                        /\ wpc = "off" /\ content = <<>> /\ output = <<>>
           /\ ~failed => /\ wpc = "done"
                         /\ content = B64Decode(stripped).val
                         /\ CharCount(content) = Len(Chars(content))
                         /\ outcome = Text(output)

\* bytes that are not UTF-8, with both limits given
C19_Witness ==
    /\ pc = "done"
    /\ fetches[1].response.kind = "file"
    /\ fetches[1].response.file.content = Some(PayloadNotUtf8)
    /\ line_range = Some(End(1)) /\ max_chars = Some(2)
    /\ outcome.kind = "err" /\ outcome.error.code = "0"
    /\ wpc = "off"

\* every descriptor the provider returned to the invocation
Reported ==
    UNION {IF fetches[j].response.kind = "dir"
           THEN {fetches[j].response.entries[i] :
                    i \in 1..Len(fetches[j].response.entries)}
           ELSE IF fetches[j].response.kind = "file"
           THEN {fetches[j].response.file}
           ELSE {} : j \in 1..Len(fetches)}

(***************************************************************************)
(* C17: every node of a tree result of kind dir or submodule has no size;  *)
(* every node of kind file or symlink has the size the provider reported   *)
(* for it; target and submodule URL are the reported ones; and a node that *)
(* is not a dir has no children.                                           *)
(***************************************************************************)
C17_EntryFields ==
    Succeeded =>
        \A k \in 1..Len(Flatten(outcome.entries)) :
            LET node == Flatten(outcome.entries)[k] IN
            /\ node.type \in {"dir", "submodule"} => node.size = None
            /\ node.type # "dir" => node.children = <<>>
            /\ \E e \in Reported :
                  /\ e.path = node.path /\ e.type = node.type
                  /\ e.target = node.target
                  /\ e.submodule_git_url = node.submodule_git_url
                  /\ node.type \in {"file", "symlink"} => node.size = e.size

\* a result with a submodule, a symlink, a file and an expanded directory
C17_Witness ==
    /\ Succeeded
    /\ LET nodes == Flatten(outcome.entries) IN
       /\ \E k \in 1..Len(nodes) :
             /\ nodes[k].type = "submodule" /\ nodes[k].size = None
             /\ nodes[k].submodule_git_url = Some("u")
             /\ Some(0) \in {e.size : e \in {r \in Reported : r.path = nodes[k].path}}
       /\ \E k \in 1..Len(nodes) :
             /\ nodes[k].type = "symlink" /\ nodes[k].size = Some(1)
             /\ nodes[k].target = Some("t")
       /\ \E k \in 1..Len(nodes) : nodes[k].type = "file" /\ nodes[k].size = Some(2)
       /\ \E k \in 1..Len(nodes) :
             /\ nodes[k].type = "dir" /\ nodes[k].size = None
             /\ nodes[k].children # <<>>

RootIsFile == fetches # <<>> /\ fetches[1].response.kind = "file"

(***************************************************************************)
(* C18: when the requested path resolves to a single descriptor (file,     *)
(* symlink or submodule) the only fetch is the one of the requested path,  *)
(* the descriptor is indexed as one leaf under the parent of its full path *)
(* (the empty key for a root-level file), and the result is exactly that   *)
(* leaf with no children, whatever the depth.                              *)
(***************************************************************************)
C18_FileRootIsOneLeaf ==
    RootIsFile =>
       LET file == fetches[1].response.file
           parent == IF LastSlash(file.path) = 0 THEN <<>>
                     ELSE SubSeq(file.path, 1, LastSlash(file.path) - 1)
           leaf == [type |-> file.type,
                    name |-> SubSeq(file.path, LastSlash(file.path) + 1, Len(file.path)),
                    path |-> file.path,
                    size |-> IF file.type \in {"file", "symlink"} THEN file.size ELSE None,
                    target |-> file.target,
                    submodule_git_url |-> file.submodule_git_url,
                    children |-> <<>>]
       IN /\ Len(fetches) = 1
          /\ root_parent = parent
          /\ (pc = "expand" /\ queue = <<>>) =>
                children_by_parent = (parent :> <<leaf>>)
          /\ pc = "done" =>
                /\ outcome = Ok(<<leaf>>)
                /\ consumed = <<[key |-> parent, held |-> 1, gone |-> TRUE]>>

\* a submodule below a directory asked with depth 3, and a root-level file
C18_Witness ==
    /\ Succeeded /\ RootIsFile
    /\ depth = 3
    /\ Len(outcome.entries) = 1
    /\ outcome.entries[1].type = "submodule"
    /\ outcome.entries[1].path = <<"a", "/", "a">>
    /\ root_parent = <<"a">>

\* the budget with which the contents returned by the j-th fetch are processed
Budget(j) == IF fetches[j].nested THEN fetches[j].remaining - 1 ELSE depth

\* the entries of the listing returned by the j-th fetch that are due a
\* nested fetch, in listing order, each with the budget of its listing
Qualifying(j) ==
    IF fetches[j].response.kind # "dir" THEN <<>>
    ELSE LET es == SelectSeq(fetches[j].response.entries,
                             LAMBDA e : e.type = "dir" /\ Budget(j) > 1)
         IN [i \in 1..Len(es) |-> [path |-> es[i].path, remaining |-> Budget(j)]]

RECURSIVE QualifyingUpTo(_)
QualifyingUpTo(j) == IF j = 0 THEN <<>> ELSE QualifyingUpTo(j - 1) \o Qualifying(j)

(***************************************************************************)
(* C20: a nested fetch is issued for an entry exactly when the entry is a  *)
(* dir and its listing is processed with a budget greater than 1: the      *)
(* nested fetches of a finished expansion are, one for one and in order,   *)
(* the dir entries of the listings processed with budget > 1, so no file,  *)
(* symlink or submodule is fetched and no dir entry is fetched twice; the  *)
(* contents of a nested fetch are enqueued with the budget of the listing  *)
(* that held the entry, less 1.                                            *)
(***************************************************************************)
C20_NestedFetchRule ==
    /\ pc = "expand" =>
          /\ Len(queue) <= Len(fetches)
          /\ \A i \in 1..Len(queue) :
                LET j == Len(fetches) - Len(queue) + i
                IN queue[i] = [node |-> fetches[j].response,
                               remaining_depth |-> Budget(j)]
          /\ cur.entries # <<>> =>
                /\ fetches[Len(fetches) - Len(queue)].response.kind = "dir"
                /\ cur.remaining_depth = Budget(Len(fetches) - Len(queue))
    /\ Succeeded =>
          [k \in 1..(Len(fetches) - 1) |->
              [path |-> fetches[k + 1].path, remaining |-> fetches[k + 1].remaining]]
            = QualifyingUpTo(Len(fetches))

\* depth 3 on the root: the dirs of the first two levels are fetched, the
\* dir of the third level, the file, the symlink and the submodule are not
C20_Witness ==
    /\ Succeeded
    /\ remote = RepoTree /\ args.path = <<>> /\ depth = 3
    /\ [k \in 1..Len(fetches) |-> fetches[k].path]
          = <<<<>>, <<"b">>, <<"a">>, <<"b", "/", "a">>>>
    /\ [k \in 1..Len(fetches) |-> fetches[k].remaining] = <<3, 3, 3, 2>>
    /\ \E k \in 1..Len(Flatten(outcome.entries)) :
          /\ Flatten(outcome.entries)[k].path = <<"b", "/", "a", "/", "a">>
          /\ Flatten(outcome.entries)[k].type = "dir"

\* the longest listing the provider serves
MaxListing ==
    LET L == {Len(remote[p].entries) : p \in {q \in DOMAIN remote : remote[q].kind = "dir"}}
    IN CHOOSE m \in L \cup {0} : \A n \in L : n <= m

\* what one queued item of budget b can still cost
Weight(b) == (2 * MaxListing + 2) ^ b

RECURSIVE QueueWeight(_)
QueueWeight(q) ==
    IF q = <<>> THEN 0 ELSE Weight(Head(q).remaining_depth) + QueueWeight(Tail(q))

\* a bound on the work the expansion has left: the queued contents and the
\* entries of the listing being iterated
Rank ==
    QueueWeight(queue)
    + (IF cur.entries = <<>> THEN 0
       ELSE Len(cur.entries) * (Weight(cur.remaining_depth - 1) + 1))

RECURSIVE CountDirs(_)
CountDirs(nodes) ==
    IF nodes = <<>> THEN 0
    ELSE (IF Head(nodes).type = "dir" THEN 1 ELSE 0) + CountDirs(Tail(nodes))

(***************************************************************************)
(* C21: every tree invocation terminates, whatever the provider answers    *)
(* (finite listings or errors, listings that repeat an entry or refer back *)
(* to the listed directory): an invocation that has not returned           *)
(* eventually returns; every step of the expansion loop lowers a natural   *)
(* number bounding the work left in the queue; and the assembly of a       *)
(* result makes one call for the root key and one per dir node, every call *)
(* leaving its key out of the index.                                       *)
(***************************************************************************)
C21_Terminates ==
    /\ (pc # "done") ~> (pc = "done")
    /\ [][(pc = "expand" /\ pc' = "expand") => (Rank' >= 0 /\ Rank' < Rank)]_vars
    /\ [](Succeeded =>
            /\ Len(consumed) = 1 + CountDirs(Flatten(outcome.entries))
            /\ \A i \in 1..Len(consumed) : consumed[i].gone)

\* a listing that holds a dir entry for the listed directory itself,
\* expanded with the largest budget, has returned a result
C21_Witness ==
    /\ Succeeded
    /\ remote = RepoStray /\ args.path = <<"a">> /\ depth = MaxDepth
    /\ Len(fetches) = MaxDepth
    /\ \A k \in 1..Len(fetches) : fetches[k].path = <<"a">>
    /\ queue = <<>>

(***************************************************************************)
(* C22: the tree tool expands with the requested depth raised to at least  *)
(* 1; asking for depth 0 and then for depth 1, with the provider answering *)
(* the requested path alike, gives the same fetches and the same outcome;  *)
(* during the expansion the budget of every queued item and of the listing *)
(* being iterated lies between 1 and the clamped depth, and a nested fetch *)
(* is only made from a budget of at least 2, so no budget goes below 1.    *)
(***************************************************************************)
C22_DepthClamped ==
    /\ pc # "idle" =>
          /\ depth >= 1
          /\ depth = (IF args.depth = 0 THEN 1 ELSE args.depth)
    /\ \A i \in 1..Len(queue) :
          queue[i].remaining_depth >= 1 /\ queue[i].remaining_depth <= depth
    /\ cur.entries # <<>> =>
          cur.remaining_depth >= 1 /\ cur.remaining_depth <= depth
    /\ \A k \in 1..Len(fetches) :
          fetches[k].nested => fetches[k].remaining >= 2
    /\ (pc = "done" /\ prev.some /\ prev.val.depth = 0
          /\ fetches[1].response = prev.val.fetches[1].response) =>
          /\ args.depth = 1
          /\ fetches = prev.val.fetches
          /\ outcome = prev.val.outcome

\* depth 0 and then depth 1 on the root of a repository with nested dirs
C22_Witness ==
    /\ Succeeded
    /\ prev.some /\ prev.val.depth = 0 /\ args.depth = 1
    /\ remote = RepoTree /\ args.path = <<>>
    /\ Len(outcome.entries) = 2
    /\ outcome = prev.val.outcome
    /\ Len(prev.val.fetches) = 1

\* the nodes of a result whose path is p
NodesAt(p) == SelectSeq(Flatten(outcome.entries), LAMBDA n : n.path = p)

RECURSIVE ReceivedCount(_)
ReceivedCount(j) ==
    IF j = 0 THEN 0
    ELSE ReceivedCount(j - 1)
         + (IF fetches[j].response.kind = "dir"
            THEN Len(fetches[j].response.entries) ELSE 0)

(***************************************************************************)
(* C23: conservation of entries.  When the provider answers as the         *)
(* contents API does and the requested path is a directory, a successful   *)
(* result holds every entry of every listing received exactly once and     *)
(* nothing else: the top level is the listing of the requested path, the   *)
(* children of the node of a fetched directory are the entries of its      *)
(* listing, a directory that was not fetched has no children, and the      *)
(* result has as many nodes as the listings have entries.                  *)
(***************************************************************************)
C23_Conservation ==
    (WellFormed(remote) /\ Succeeded /\ RootIsDirectory) =>
        /\ Paths(outcome.entries) = Paths(RootListing)
        /\ \A j \in 2..Len(fetches) :
              /\ Len(NodesAt(fetches[j].path)) = 1
              /\ Paths(NodesAt(fetches[j].path)[1].children)
                    = Paths(fetches[j].response.entries)
        /\ \A k \in 1..Len(Flatten(outcome.entries)) :
              LET node == Flatten(outcome.entries)[k] IN
              (\A j \in 2..Len(fetches) : fetches[j].path # node.path) =>
                  node.children = <<>>
        /\ Len(Flatten(outcome.entries)) = ReceivedCount(Len(fetches))

\* the same statement for the requests whose path has no repeated separator
C23_ConservationCanonical ==
    UrlPath(args.path) = normalize_root_path(args.path) => C23_Conservation

\* the response to the k-th request of list_repos
Answer(k) == requests[k].response
AnsweredNotFound(k) == Answer(k).kind = "sent" /\ Answer(k).status = 404

(***************************************************************************)
(* C24: list_repos asks the "users" endpoint first and the "orgs" endpoint *)
(* second, and asks "orgs" only after "users" answered not-found; a success*)
(* returns the repositories of the endpoint that answered and ends the     *)
(* call; a transport failure or a failing status other than not-found is   *)
(* returned at once; when both endpoints answer not-found the error        *)
(* returned is the one of "orgs".                                          *)
(***************************************************************************)
C24_UsersThenOrgs ==
    /\ Len(requests) <= 2
    /\ \A k \in 1..Len(requests) :
          /\ requests[k].base = <<"users", "orgs">>[k]
          /\ k < Len(requests) => AnsweredNotFound(k)
    /\ (pc = "idle" /\ requests # <<>>) =>
          (Len(requests) = 1 /\ AnsweredNotFound(1))
    /\ pc = "done" =>
          /\ requests # <<>>
          /\ LET last == Answer(Len(requests)) IN
             /\ last.kind = "failed" =>
                   (outcome.kind = "err" /\ outcome.error.code = "0")
             /\ (last.kind = "sent" /\ last.status \in {301, 403}) =>
                   /\ outcome.kind = "err"
                   /\ outcome.error.code = StatusText(last.status)
                   /\ last.body.json = "message" =>
                         outcome.error.message = last.body.message
             /\ (last.kind = "sent" /\ last.status = 200 /\ last.body.json = "repos") =>
                   /\ outcome.kind = "ok"
                   /\ Len(outcome.entries) = Len(last.body.repos)
                   /\ \A i \in 1..Len(last.body.repos) :
                         /\ outcome.entries[i].name = last.body.repos[i].name
                         /\ outcome.entries[i].full_name = last.body.repos[i].full_name
                         /\ outcome.entries[i].private = last.body.repos[i].private
                         /\ outcome.entries[i].description
                               = last.body.repos[i].description
                         /\ outcome.entries[i].html_url = last.body.repos[i].html_url
             /\ AnsweredNotFound(Len(requests)) =>
                   /\ Len(requests) = 2
                   /\ outcome.kind = "err" /\ outcome.error.code = "404"
                   /\ last.body.json = "message" =>
                         outcome.error.message = last.body.message
                   /\ last.body.json = "empty" =>
                         outcome.error.message = "Not Found"

\* both endpoints answer not-found, with different messages
C24_Witness ==
    /\ pc = "done"
    /\ Len(requests) = 2
    /\ AnsweredNotFound(1) /\ AnsweredNotFound(2)
    /\ Answer(1).body = [json |-> "message", message |-> "Not Found"]
    /\ Answer(2).body = [json |-> "message", message |-> "no such organization"]
    /\ outcome = Err([code |-> "404", message |-> "no such organization"])
    /\ args.page = Some(2)

====
